---------------------------- MODULE Spec2Model ----------------------------
(***************************************************************************)
(* A model of generate_report (src/login_page.py): the sequential batch    *)
(* loop that sends every image to the remote model with a bounded retry on *)
(* rate limiting, accumulates the estimated cost and appends one entry per *)
(* image to the document, two entries per page.                            *)
(*                                                                         *)
(* Strings are sequences of one-character strings; a longer string inside  *)
(* a sequence is a literal of the source taken as one opaque piece.  Costs *)
(* are counted in millionths of a currency unit, the precision that        *)
(* round(..., 6) keeps.                                                    *)
(***************************************************************************)
EXTENDS Integers, Sequences, FiniteSets, TLC

\* ------------------------------------------------------------------ bounds

\* Longest image list handed to generate_report.
MaxImages == 3

\* Longest image list of a session that generates the report twice.
MaxPairImages == 2

\* Longest image list of the runs checked for termination.
MaxFairImages == 2

\* Longest response text enumerated for the caption normalisation.
MaxLen == 3

MaxUploads == 3

MaxAttempts == 2

\* --------------------------------------------------------- program constants

retries == 3

InitialDelay == 5

\* 0.005 / 1000 and 0.015 / 1000 currency units per token, in millionths.
InRate == 5

OutRate == 15

PerPage == 2

\* ------------------------------------------------------------------ strings

Whitespace == {" ", "\t"}

\* A lowercase letter, an uppercase letter, a blank, a period and a digit.
Alphabet == {"a", "B", " ", ".", "1"}

upper(c) == CASE c = "a" -> "A" [] c = "b" -> "B" [] OTHER -> c

lower(c) ==
    CASE c = "A" -> "a" [] c = "B" -> "b" [] c = "E" -> "e" [] c = "G" -> "g"
      [] c = "J" -> "j" [] c = "N" -> "n" [] c = "P" -> "p" [] OTHER -> c

IsUpper(c) == c \in {"A", "B"}

IsLower(c) == c \in {"a", "b"}

RECURSIVE lstrip(_)
lstrip(s) ==
    IF s = <<>> THEN s
    ELSE IF Head(s) \in Whitespace THEN lstrip(Tail(s)) ELSE s

RECURSIVE rstrip(_)
rstrip(s) ==
    IF s = <<>> THEN s
    ELSE IF s[Len(s)] \in Whitespace THEN rstrip(SubSeq(s, 1, Len(s) - 1)) ELSE s

strip(s) == rstrip(lstrip(s))

\* str.capitalize: the first character upper-cased, every other one lower-cased.
capitalize(s) ==
    [i \in 1..Len(s) |-> IF i = 1 THEN upper(s[i]) ELSE lower(s[i])]

endswith(s, suffix) ==
    /\ Len(s) >= Len(suffix)
    /\ SubSeq(s, Len(s) - Len(suffix) + 1, Len(s)) = suffix

\* assessment with no period added.
assessment_no_period(content) == capitalize(strip(content))

\* Lines 85-87: the comment made of the content of a response.

assessment(content) ==
    LET comment0 == capitalize(strip(content))
    IN  IF ~endswith(comment0, <<".">>) THEN comment0 \o <<".">> ELSE comment0

\* Line 96: the literal before the {e} of the f-string; "(!)" stands for its
\* warning sign.  The E after the first character is upper case, which no text
\* that went through capitalize has, so no assessment equals a fallback.
ErrorPrefix == "(!) Error analyzing image: "

\* Line 96.
error_comment(e) == <<ErrorPrefix>> \o e

\* Line 100.
could_not_analyze == <<"(!) Could not analyze image after retries.">>

build_prompt ==
    << "As a civil engineer, I have some photos and would like to classify them into different categories before starting a project. ",
       "Find if it contains any visible cracks, peeling paint, possible water damage, visual discoloration, honeycombing, spalling or any other possible damage. ",
       "If nothing, then just mention a statement about the image. Sound it technical and to the point." >>

\* The tokenizer is a library: one token per piece of the text.
encode(text) == text

\* In millionths: round(in * 0.005/1000 + out * 0.015/1000, 6).
estimate_cost(prompt_text, response_text) ==
    Len(encode(prompt_text)) * InRate + Len(encode(response_text)) * OutRate

\* --------------------------------------------------------------- the inputs

\* The list of n paths that starts at one of two files and alternates.
image_list(n, first) ==
    [i \in 1..n |-> IF (i + first) % 2 = 0 THEN "temp_images/a.jpg" ELSE "temp_images/b.png"]

ImageLists(n) == {image_list(m, first) : m \in 0..n, first \in 0..1}

RECURSIVE SeqsUpTo(_, _)
SeqsUpTo(S, n) ==
    IF n = 0 THEN {<<>>}
    ELSE LET shorter == SeqsUpTo(S, n - 1)
         IN  shorter \cup {Append(s, x) : s \in {t \in shorter : Len(t) = n - 1}, x \in S}

\* What the remote model answers in the batch runs.
Responses == {<<>>, <<" ", "b", "A", ".", " ">>}

\* Every response text up to MaxLen, for the normalisation.
Texts == SeqsUpTo(Alphabet, MaxLen)

\* str(e) of a failure of the call that is not a rate limit.
Details == {<<"timeout">>, <<"bad request">>}

\* str(e) of tiktoken.encoding_for_model failing.
TokenizerError == <<"no tokenizer">>

\* ---------------------------------------------------------------- the uploads

\* Names of uploaded files, character by character; none holds a separator.
FileNames ==
    { <<"a", ".", "j", "p", "g">>,
      <<"b", ".", "p", "n", "g">>,
      <<"b", ".", "t", "x", "t">>,
      <<"c", ".", "J", "P", "E", "G">>,
      <<".", "j", "p", "g">> }

\* The k-th upload: its name, and data that tells it from every other upload.
File(nm, k) == [name |-> nm, data |-> k]

\* The string a sequence of characters spells.
RECURSIVE text_of(_)
text_of(s) == IF s = <<>> THEN "" ELSE Head(s) \o text_of(Tail(s))

\* str.lower.
str_lower(s) == [i \in 1..Len(s) |-> lower(s[i])]

\* str.rfind(".") counted from 1; 0 when there is no period.
rfind_dot(p) ==
    IF \E i \in 1..Len(p) : p[i] = "."
    THEN CHOOSE i \in 1..Len(p) : p[i] = "." /\ \A j \in (i + 1)..Len(p) : p[j] # "."
    ELSE 0

\* os.path.splitext of a name with no separator: the extension starts at the
\* last period, unless only periods stand before it.
splitext(p) ==
    LET dotIndex == rfind_dot(p)
    IN  IF dotIndex > 0 /\ \E j \in 1..(dotIndex - 1) : p[j] # "."
        THEN << SubSeq(p, 1, dotIndex - 1), SubSeq(p, dotIndex, Len(p)) >>
        ELSE << p, <<>> >>

\* Line 151: the tuple (".jpg", ".jpeg", ".png").
AllowedExtensions ==
    { <<".", "j", "p", "g">>, <<".", "j", "p", "e", "g">>, <<".", "p", "n", "g">> }

\* os.path.join("temp_images", name).
path_of(nm) == "temp_images" \o "/" \o text_of(nm)

\* open(path, "wb") and write: the file is made, or what it held is replaced.
write(fs, path, data) ==
    [q \in DOMAIN fs \cup {path} |-> IF q = path THEN data ELSE fs[q]]

NoFiles == [q \in {} |-> 0]

Built(paths, errors, fs) == [image_paths |-> paths, errors |-> errors, files |-> fs]

\* The loop with the extension compared as it is written, no lower().
RECURSIVE save_loop_case_sensitive(_, _)
save_loop_case_sensitive(files, acc) ==
    IF files = <<>> THEN acc
    ELSE LET f == Head(files)
             ext == splitext(f.name)[2]
         IN  IF ext \notin AllowedExtensions
             THEN save_loop_case_sensitive(Tail(files),
                      Built(acc.image_paths, Append(acc.errors, f.name), acc.files))
             ELSE save_loop_case_sensitive(Tail(files),
                      Built(Append(acc.image_paths, path_of(f.name)), acc.errors,
                            write(acc.files, path_of(f.name), f.data)))

\* Lines 149-159: the loop over the uploaded files, from what it has built so far.
RECURSIVE save_loop(_, _)
save_loop(files, acc) ==
    IF files = <<>> THEN acc
    ELSE LET f == Head(files)
             ext == str_lower(splitext(f.name)[2])
         IN  IF ext \notin AllowedExtensions
             THEN save_loop(Tail(files),
                      Built(acc.image_paths, Append(acc.errors, f.name), acc.files))
             ELSE save_loop(Tail(files),
                      Built(Append(acc.image_paths, path_of(f.name)), acc.errors,
                            write(acc.files, path_of(f.name), f.data)))

\* Lines 179-182 and 138-163: what one run of the script renders, from the flag
\* as the entry point reads it.
script(flag, files, fs) ==
    IF ~flag THEN [page |-> "login", built |-> Built(<<>>, <<>>, fs)]
    ELSE IF files = <<>> THEN [page |-> "image_analysis", built |-> Built(<<>>, <<>>, fs)]
    ELSE [page |-> "image_analysis", built |-> save_loop(files, Built(<<>>, <<>>, fs))]

\* st.secrets["auth"], and what else is typed into the two inputs.
AuthUsername == "admin"

AuthPassword == "secret"

Usernames == {AuthUsername, "guest"}

Passwords == {AuthPassword, "wrong"}

\* The uploads that leave a list of paths behind, one file per path.
uploads_of(paths) ==
    [k \in 1..Len(paths) |->
        File(CHOOSE nm \in FileNames : path_of(nm) = paths[k], k)]

\* --------------------------------------------------------------- the document

Element(k, n, p, t) == [kind |-> k, num |-> n, picture |-> p, text |-> t]

Num(i) == Element("num", i, "", <<>>)

Picture(path) == Element("picture", 0, path, <<>>)

EmptyParagraph == Element("picture", 0, "", <<>>)

Assessment(c) == Element("assessment", 0, "", c)

Blank == Element("blank", 0, "", <<>>)

PageBreak == Element("page_break", 0, "", <<>>)

\* ------------------------------------------------------------------ the state

VARIABLES
    image_paths,      \* the argument of generate_report
    pc,               \* where generate_report is
    idx,              \* the index of the image in hand, from 1; 0 before the first
    attempt,          \* the loop variable of the retry loop
    delay,
    success,
    comment,          \* the local comment; <<>> while it is not bound
    comment_bound,    \* 'comment' in locals()
    total_cost,
    images_on_page,
    doc,              \* the elements added to the document, in order
    calls,            \* calls[i]: what each call made for image i met, in order
    sleeps,           \* sleeps[i]: the delays slept for image i, in order
    ledger,           \* total_cost as it stood after each entry
    run,              \* the number of the call of generate_report in this session
    prev,             \* what the earlier call of this session left behind
    logged_in,        \* st.session_state.logged_in
    page,             \* the page the latest run of the script rendered
    attempts,         \* the username and password of each press of Log in, in order
    uploaded,         \* the files in the uploader, in upload order
    invalid,          \* the names the latest rendering reported as invalid
    saved,            \* image_paths of image_analysis_page, as the latest rendering built it
    temp_images       \* the directory temp_images: the data under each path

session == << logged_in, page, attempts, uploaded, invalid, saved, temp_images >>

vars == << image_paths, pc, idx, attempt, delay, success, comment, comment_bound,
           total_cost, images_on_page, doc, calls, sleeps, ledger, run, prev, session >>

N == Len(image_paths)

Met(k, b, t) == [kind |-> k, body |-> b, tokenizer |-> t]

RateLimit == Met("rate_limit", <<>>, TRUE)

NoRun == [doc |-> <<>>, calls |-> <<>>, ledger |-> <<>>, total_cost |-> 0, pc |-> "none"]

\* Lines 35-36 and 62: the locals as generate_report sets out.
Prologue ==
    /\ pc = "loop"
    /\ idx = 0
    /\ attempt = 0
    /\ delay = 0
    /\ success = FALSE
    /\ comment = <<>>
    /\ comment_bound = FALSE
    /\ total_cost = 0
    /\ images_on_page = 0
    /\ doc = <<>>
    /\ calls = [i \in 1..N |-> <<>>]
    /\ sleeps = [i \in 1..N |-> <<>>]
    /\ ledger = <<>>

\* The session as it stands when Generate Report has been pressed on a list.
InSession ==
    /\ logged_in = TRUE
    /\ page = "image_analysis"
    /\ attempts = << <<AuthUsername, AuthPassword>> >>
    /\ uploaded = uploads_of(image_paths)
    /\ invalid = <<>>
    /\ saved = image_paths
    /\ temp_images = save_loop(uploaded, Built(<<>>, <<>>, NoFiles)).files

Init ==
    /\ image_paths \in ImageLists(MaxImages)
    /\ run = 1
    /\ prev = NoRun
    /\ Prologue
    /\ InSession

\* ---------------------------------------------------------------- the actions

\* NextImage with the delay set once, before the first image only.
NextImage_keeps_delay ==
    /\ pc = "loop"
    /\ idx < N
    /\ idx' = idx + 1
    /\ attempt' = 0
    /\ delay' = IF idx = 0 THEN InitialDelay ELSE delay
    /\ success' = FALSE
    /\ pc' = "call"
    /\ UNCHANGED << image_paths, comment, comment_bound, total_cost, images_on_page,
                    doc, calls, sleeps, ledger, run, prev, session >>

\* Lines 64-70: the next image is encoded and the retry loop set up.
NextImage ==
    /\ pc = "loop"
    /\ idx < N
    /\ idx' = idx + 1
    /\ attempt' = 0
    /\ delay' = InitialDelay
    /\ success' = FALSE
    /\ pc' = "call"
    /\ UNCHANGED << image_paths, comment, comment_bound, total_cost, images_on_page,
                    doc, calls, sleeps, ledger, run, prev, session >>

\* Line 65: encode_image raises (the file cannot be read); nothing catches it.
EncodeFails ==
    /\ pc = "loop"
    /\ idx < N
    /\ idx' = idx + 1
    /\ pc' = "raised"
    /\ UNCHANGED << image_paths, attempt, delay, success, comment, comment_bound,
                    total_cost, images_on_page, doc, calls, sleeps, ledger, run, prev, session >>

\* CallSucceeds with the cost assigned to the total instead of added to it.
CallSucceeds_assigns(content) ==
    /\ pc = "call"
    /\ calls' = [calls EXCEPT ![idx] = Append(@, Met("ok", content, TRUE))]
    /\ comment' = assessment(content)
    /\ comment_bound' = TRUE
    /\ total_cost' = estimate_cost(build_prompt, assessment(content))
    /\ success' = TRUE
    /\ pc' = "append"
    /\ UNCHANGED << image_paths, idx, attempt, delay, images_on_page, doc, sleeps,
                    ledger, run, prev, session >>

\* Lines 72-90: the call returns content and the cost is estimated.
CallSucceeds(content) ==
    /\ pc = "call"
    /\ calls' = [calls EXCEPT ![idx] = Append(@, Met("ok", content, TRUE))]
    /\ comment' = assessment(content)
    /\ comment_bound' = TRUE
    /\ total_cost' = total_cost + estimate_cost(build_prompt, assessment(content))
    /\ success' = TRUE
    /\ pc' = "append"
    /\ UNCHANGED << image_paths, idx, attempt, delay, images_on_page, doc, sleeps,
                    ledger, run, prev, session >>

\* Lines 72-88 and 95-97: the call returns content, estimate_cost raises inside
\* the try and the handler of Exception overwrites the comment.
CostFails(content) ==
    /\ pc = "call"
    /\ calls' = [calls EXCEPT ![idx] = Append(@, Met("ok", content, FALSE))]
    /\ comment' = error_comment(TokenizerError)
    /\ comment_bound' = TRUE
    /\ pc' = "append"
    /\ UNCHANGED << image_paths, idx, attempt, delay, success, total_cost,
                    images_on_page, doc, sleeps, ledger, run, prev, session >>

\* Lines 91-92: the call raises RateLimitError.
RateLimited ==
    /\ pc = "call"
    /\ calls' = [calls EXCEPT ![idx] = Append(@, RateLimit)]
    /\ pc' = "sleep"
    /\ UNCHANGED << image_paths, idx, attempt, delay, success, comment, comment_bound,
                    total_cost, images_on_page, doc, sleeps, ledger, run, prev, session >>

\* Sleep with the delay left as it is.
Sleep_no_doubling ==
    /\ pc = "sleep"
    /\ sleeps' = [sleeps EXCEPT ![idx] = Append(@, delay)]
    /\ delay' = delay
    /\ IF attempt + 1 < retries
         THEN attempt' = attempt + 1 /\ pc' = "call"
         ELSE attempt' = attempt /\ pc' = "append"
    /\ UNCHANGED << image_paths, idx, success, comment, comment_bound, total_cost,
                    images_on_page, doc, calls, ledger, run, prev, session >>

\* Sleep with one attempt more than retries allows.
Sleep_one_more_attempt ==
    /\ pc = "sleep"
    /\ sleeps' = [sleeps EXCEPT ![idx] = Append(@, delay)]
    /\ delay' = delay * 2
    /\ IF attempt + 1 <= retries
         THEN attempt' = attempt + 1 /\ pc' = "call"
         ELSE attempt' = attempt /\ pc' = "append"
    /\ UNCHANGED << image_paths, idx, success, comment, comment_bound, total_cost,
                    images_on_page, doc, calls, ledger, run, prev, session >>

\* Sleep that does not sleep once the attempts are used up.
Sleep_not_after_last ==
    /\ pc = "sleep"
    /\ sleeps' = [sleeps EXCEPT ![idx] =
                    IF attempt + 1 < retries THEN Append(@, delay) ELSE @]
    /\ delay' = delay * 2
    /\ IF attempt + 1 < retries
         THEN attempt' = attempt + 1 /\ pc' = "call"
         ELSE attempt' = attempt /\ pc' = "append"
    /\ UNCHANGED << image_paths, idx, success, comment, comment_bound, total_cost,
                    images_on_page, doc, calls, ledger, run, prev, session >>

\* Lines 93-94 and 70: the handler sleeps, doubles the delay, and the loop
\* goes to its next attempt or runs out.
Sleep ==
    /\ pc = "sleep"
    /\ sleeps' = [sleeps EXCEPT ![idx] = Append(@, delay)]
    /\ delay' = delay * 2
    /\ IF attempt + 1 < retries
         THEN attempt' = attempt + 1 /\ pc' = "call"
         ELSE attempt' = attempt /\ pc' = "append"
    /\ UNCHANGED << image_paths, idx, success, comment, comment_bound, total_cost,
                    images_on_page, doc, calls, ledger, run, prev, session >>

\* CallFails handled as a rate limit is: the loop sleeps and goes on.
CallFails_retries(e) ==
    /\ pc = "call"
    /\ calls' = [calls EXCEPT ![idx] = Append(@, Met("error", e, TRUE))]
    /\ comment' = error_comment(e)
    /\ comment_bound' = TRUE
    /\ pc' = "sleep"
    /\ UNCHANGED << image_paths, idx, attempt, delay, success, total_cost,
                    images_on_page, doc, sleeps, ledger, run, prev, session >>

\* Lines 95-97: the call raises anything else.
CallFails(e) ==
    /\ pc = "call"
    /\ calls' = [calls EXCEPT ![idx] = Append(@, Met("error", e, TRUE))]
    /\ comment' = error_comment(e)
    /\ comment_bound' = TRUE
    /\ pc' = "append"
    /\ UNCHANGED << image_paths, idx, attempt, delay, success, total_cost,
                    images_on_page, doc, sleeps, ledger, run, prev, session >>

\* Lines 99-100: the comment the entry gets.
entry_comment ==
    IF ~success
      THEN IF comment_bound THEN comment ELSE could_not_analyze
      ELSE comment

\* entry_paragraphs with the index counted from 0.
entry_paragraphs_from_zero(i, img_path, c) ==
    << Num(i - 1), Picture(img_path), Assessment(c), Blank >>

\* Lines 103-113: the paragraphs of one entry.
entry_paragraphs(i, img_path, c) ==
    << Num(i), Picture(img_path), Assessment(c), Blank >>

\* Lines 115-117: the page break after the entry, if the page is full.
page_break_after(on_page) ==
    IF on_page + 1 = PerPage THEN << PageBreak >> ELSE << >>

\* images_on_page_after with the counter never reset.
images_on_page_after_no_reset(on_page) == on_page + 1

\* Lines 115-118: the counter after the entry.
images_on_page_after(on_page) ==
    IF on_page + 1 = PerPage THEN 0 ELSE on_page + 1

\* AppendEntry placed inside the retry loop: the loop goes on after the entry.
AppendEntry_inside_retry_loop ==
    /\ pc = "append"
    /\ comment' = entry_comment
    /\ comment_bound' = TRUE
    /\ doc' = doc \o entry_paragraphs(idx, image_paths[idx], entry_comment)
                  \o page_break_after(images_on_page)
    /\ images_on_page' = images_on_page_after(images_on_page)
    /\ ledger' = Append(ledger, total_cost)
    /\ pc' = IF attempt + 1 < retries THEN "call" ELSE "loop"
    /\ attempt' = attempt + 1
    /\ UNCHANGED << image_paths, idx, delay, success, total_cost, calls,
                    sleeps, run, prev, session >>

\* Lines 99-118: the fallback, the entry and the page break.
AppendEntry ==
    /\ pc = "append"
    /\ comment' = entry_comment
    /\ comment_bound' = TRUE
    /\ doc' = doc \o entry_paragraphs(idx, image_paths[idx], entry_comment)
                  \o page_break_after(images_on_page)
    /\ images_on_page' = images_on_page_after(images_on_page)
    /\ ledger' = Append(ledger, total_cost)
    /\ pc' = "loop"
    /\ UNCHANGED << image_paths, idx, attempt, delay, success, total_cost, calls,
                    sleeps, run, prev, session >>

\* Lines 99-108: add_picture raises (the file is no image); nothing catches it.
EmbedFails ==
    /\ pc = "append"
    /\ comment' = entry_comment
    /\ comment_bound' = TRUE
    /\ doc' = doc \o << Num(idx), EmptyParagraph >>
    /\ pc' = "raised"
    /\ UNCHANGED << image_paths, idx, attempt, delay, success, total_cost,
                    images_on_page, calls, sleeps, ledger, run, prev, session >>

\* Lines 120-121: the document is saved and the total returned.
Save ==
    /\ pc = "loop"
    /\ idx = N
    /\ pc' = "done"
    /\ UNCHANGED << image_paths, idx, attempt, delay, success, comment, comment_bound,
                    total_cost, images_on_page, doc, calls, sleeps, ledger, run, prev, session >>

\* Line 120: doc.save raises.
SaveFails ==
    /\ pc = "loop"
    /\ idx = N
    /\ pc' = "raised"
    /\ UNCHANGED << image_paths, idx, attempt, delay, success, comment, comment_bound,
                    total_cost, images_on_page, doc, calls, sleeps, ledger, run, prev, session >>

\* Rerun with the caption and the total of the earlier run left standing.
Rerun_keeps_locals ==
    /\ pc \in {"done", "raised"}
    /\ run = 1
    /\ run' = 2
    /\ prev' = [doc |-> doc, calls |-> calls, ledger |-> ledger,
                total_cost |-> total_cost, pc |-> pc]
    /\ pc' = "loop"
    /\ idx' = 0
    /\ attempt' = 0
    /\ delay' = 0
    /\ success' = FALSE
    /\ images_on_page' = 0
    /\ doc' = <<>>
    /\ calls' = [i \in 1..N |-> <<>>]
    /\ sleeps' = [i \in 1..N |-> <<>>]
    /\ ledger' = <<>>
    /\ UNCHANGED << image_paths, comment, comment_bound, total_cost, session >>

\* Lines 166-167 and 35-36, 62: Generate Report is pressed again in the session
\* and generate_report starts anew on the same list, its locals fresh.
Rerun ==
    /\ pc \in {"done", "raised"}
    /\ run = 1
    /\ run' = 2
    /\ prev' = [doc |-> doc, calls |-> calls, ledger |-> ledger,
                total_cost |-> total_cost, pc |-> pc]
    /\ pc' = "loop"
    /\ idx' = 0
    /\ attempt' = 0
    /\ delay' = 0
    /\ success' = FALSE
    /\ comment' = <<>>
    /\ comment_bound' = FALSE
    /\ total_cost' = 0
    /\ images_on_page' = 0
    /\ doc' = <<>>
    /\ calls' = [i \in 1..N |-> <<>>]
    /\ sleeps' = [i \in 1..N |-> <<>>]
    /\ ledger' = <<>>
    /\ UNCHANGED << image_paths, session >>

\* LogIn that lets in whoever has one of the two right.
LogIn_either(user, pwd) ==
    /\ page = "login"
    /\ ~logged_in
    /\ Len(attempts) < MaxAttempts
    /\ attempts' = Append(attempts, <<user, pwd>>)
    /\ logged_in' = IF user = AuthUsername \/ pwd = AuthPassword THEN TRUE ELSE logged_in
    /\ LET r == script(logged_in, uploaded, temp_images)
       IN  /\ page' = r.page
           /\ invalid' = r.built.errors
           /\ saved' = r.built.image_paths
           /\ temp_images' = r.built.files
    /\ UNCHANGED << image_paths, pc, idx, attempt, delay, success, comment, comment_bound,
                    total_cost, images_on_page, doc, calls, sleeps, ledger, run, prev,
                    uploaded >>

\* Lines 179-182 and 125-136: Log in is pressed on the login page; the script
\* runs, reads the flag as false, and login_page compares what was typed.
LogIn(user, pwd) ==
    /\ page = "login"
    /\ ~logged_in
    /\ Len(attempts) < MaxAttempts
    /\ attempts' = Append(attempts, <<user, pwd>>)
    /\ logged_in' = IF user = AuthUsername /\ pwd = AuthPassword THEN TRUE ELSE logged_in
    /\ LET r == script(logged_in, uploaded, temp_images)
       IN  /\ page' = r.page
           /\ invalid' = r.built.errors
           /\ saved' = r.built.image_paths
           /\ temp_images' = r.built.files
    /\ UNCHANGED << image_paths, pc, idx, attempt, delay, success, comment, comment_bound,
                    total_cost, images_on_page, doc, calls, sleeps, ledger, run, prev,
                    uploaded >>

\* Lines 176-182: the script runs again on an interaction that presses no button.
entry_point ==
    /\ pc \in {"none", "done", "raised"}
    /\ LET r == script(logged_in, uploaded, temp_images)
       IN  /\ page' = r.page
           /\ invalid' = r.built.errors
           /\ saved' = r.built.image_paths
           /\ temp_images' = r.built.files
    /\ UNCHANGED << image_paths, pc, idx, attempt, delay, success, comment, comment_bound,
                    total_cost, images_on_page, doc, calls, sleeps, ledger, run, prev,
                    logged_in, attempts, uploaded >>

\* Lines 141-163: a file is added in the uploader of the image analysis page
\* and the script runs again.
Upload(nm) ==
    /\ page = "image_analysis"
    /\ pc = "none"
    /\ Len(uploaded) < MaxUploads
    /\ uploaded' = Append(uploaded, File(nm, Len(uploaded) + 1))
    /\ LET r == script(logged_in, uploaded', temp_images)
       IN  /\ page' = r.page
           /\ invalid' = r.built.errors
           /\ saved' = r.built.image_paths
           /\ temp_images' = r.built.files
    /\ UNCHANGED << image_paths, pc, idx, attempt, delay, success, comment, comment_bound,
                    total_cost, images_on_page, doc, calls, sleeps, ledger, run, prev,
                    logged_in, attempts >>

\* Lines 166-167 and 35-36, 62: Generate Report is pressed where the page shows
\* it; the script runs again and calls generate_report on the list it built.
GenerateReport ==
    /\ page = "image_analysis"
    /\ saved # <<>>
    /\ pc = "none"
    /\ LET r == script(logged_in, uploaded, temp_images)
       IN  /\ r.page = "image_analysis"
           /\ r.built.image_paths # <<>>
           /\ page' = r.page
           /\ invalid' = r.built.errors
           /\ saved' = r.built.image_paths
           /\ temp_images' = r.built.files
           /\ image_paths' = r.built.image_paths
           /\ calls' = [i \in 1..Len(r.built.image_paths) |-> <<>>]
           /\ sleeps' = [i \in 1..Len(r.built.image_paths) |-> <<>>]
    /\ run' = run + 1
    /\ pc' = "loop"
    /\ idx' = 0
    /\ attempt' = 0
    /\ delay' = 0
    /\ success' = FALSE
    /\ comment' = <<>>
    /\ comment_bound' = FALSE
    /\ total_cost' = 0
    /\ images_on_page' = 0
    /\ doc' = <<>>
    /\ ledger' = <<>>
    /\ UNCHANGED << prev, logged_in, attempts, uploaded >>

Next ==
    \/ NextImage
    \/ EncodeFails
    \/ \E content \in Responses : CallSucceeds(content)
    \/ \E content \in Responses : CostFails(content)
    \/ RateLimited
    \/ Sleep
    \/ \E e \in Details : CallFails(e)
    \/ AppendEntry
    \/ EmbedFails
    \/ Save
    \/ SaveFails

Spec == Init /\ [][Next]_vars

\* A session that generates the report of one list twice.
InitTwoRuns == Init /\ N <= MaxPairImages

NextTwoRuns == Next \/ Rerun

SpecTwoRuns == InitTwoRuns /\ [][NextTwoRuns]_vars

\* A session whose second run meets, call by call, what the first run met:
\* every pair of runs that received the same API outcomes is a behaviour of it.
IsPrefix(s, t) == Len(s) <= Len(t) /\ \A k \in 1..Len(s) : s[k] = t[k]

Replays == run = 2 => \A i \in 1..N : IsPrefix(calls[i], prev.calls[i])

NextReplay == (Next /\ Replays') \/ Rerun

SpecReplay == InitTwoRuns /\ [][NextReplay]_vars

\* A session from its first rendering: logging in, uploading, and one report,
\* in whose run every file is read and every call is answered.
InitSession ==
    /\ logged_in = FALSE
    /\ page = "login"
    /\ attempts = <<>>
    /\ uploaded = <<>>
    /\ invalid = <<>>
    /\ saved = <<>>
    /\ temp_images = NoFiles
    /\ image_paths = <<>>
    /\ run = 0
    /\ prev = NoRun
    /\ pc = "none"
    /\ idx = 0
    /\ attempt = 0
    /\ delay = 0
    /\ success = FALSE
    /\ comment = <<>>
    /\ comment_bound = FALSE
    /\ total_cost = 0
    /\ images_on_page = 0
    /\ doc = <<>>
    /\ calls = <<>>
    /\ sleeps = <<>>
    /\ ledger = <<>>

NextSession ==
    \/ \E user \in Usernames, pwd \in Passwords : LogIn(user, pwd)
    \/ entry_point
    \/ \E nm \in FileNames : Upload(nm)
    \/ GenerateReport
    \/ NextImage
    \/ \E content \in Responses : CallSucceeds(content)
    \/ AppendEntry
    \/ Save

SpecSession == InitSession /\ [][NextSession]_vars

\* A run that always takes its next step: generate_report is one thread, and
\* every call and every sleep it makes returns.
InitFair == Init /\ N <= MaxFairImages

SpecFair == InitFair /\ [][Next]_vars /\ WF_vars(Next)

\* One image whose call returns any text up to MaxLen: lines 85-87 on every input.
InitCaption == Init /\ N = 1

NextCaption ==
    \/ NextImage
    \/ \E content \in Texts : CallSucceeds(content)
    \/ AppendEntry
    \/ Save

SpecCaption == InitCaption /\ [][NextCaption]_vars

\* ------------------------------------------------------- reading the document

IsPageBreak(e) == e.kind = "page_break"

NotPageBreak(e) == e.kind # "page_break"

\* The paragraphs of the document, four to an entry.
Body(d) == SelectSeq(d, NotPageBreak)

EntryCount(d) == Len(Body(d)) \div 4

Caption(d, i) == Body(d)[4 * i - 1].text

PageBreaks(d) == Len(SelectSeq(d, IsPageBreak))

IsFallback(c) == c = could_not_analyze \/ (c # <<>> /\ c[1] = ErrorPrefix)

AllRateLimited(cs) == \A p \in 1..Len(cs) : cs[p] = RateLimit

Exhausted(cs) == Len(cs) = retries /\ AllRateLimited(cs)

Last(cs) == cs[Len(cs)]

\* The image got an assessment that was costed.
Assessed(cs) == cs # <<>> /\ Last(cs).kind = "ok" /\ Last(cs).tokenizer

\* The image ran out of attempts or its call failed otherwise.
Failed(cs) == Exhausted(cs) \/ (cs # <<>> /\ Last(cs).kind = "error")

\* What image j added to the total, in a ledger l.
Contribution(l, j) == l[j] - (IF j = 1 THEN 0 ELSE l[j - 1])

\* ------------------------------------------------------------------- claims

\* C1: when generate_report returns, the document holds exactly N entries, the
\* i-th labelled i and showing the i-th image of the list, each with a caption
\* that is not empty.
C1_OneEntryPerImage ==
    pc = "done" =>
        /\ Len(Body(doc)) = 4 * N
        /\ \A i \in 1..N :
              /\ Body(doc)[4 * i - 3] = Num(i)
              /\ Body(doc)[4 * i - 2] = Picture(image_paths[i])
              /\ Body(doc)[4 * i - 1].kind = "assessment"
              /\ Body(doc)[4 * i - 1].text # <<>>
              /\ Body(doc)[4 * i] = Blank

C1_Witness ==
    /\ pc = "done"
    /\ N = 3
    /\ Assessed(calls[1]) /\ calls[1][1].body = <<>>
    /\ Exhausted(calls[2])
    /\ Last(calls[3]).kind = "error"

\* C2: an image whose three attempts were all rate limited gets a fallback
\* caption, never the caption of a successful assessment.
C2_ExhaustedGivesFallback ==
    \A i \in 1..EntryCount(doc) :
        Exhausted(calls[i]) => IsFallback(Caption(doc, i))

\* C3: of two runs on one list that meet the same outcomes at every image but
\* k, where k fails in one and succeeds in the other, both hold N entries and
\* agree on the caption and the cost of every image other than k.
C3_FailureIsolation ==
    (run = 2 /\ pc = "done" /\ prev.pc = "done") =>
        \A k \in 1..N :
            ( /\ \A j \in (1..N) \ {k} : calls[j] = prev.calls[j]
              /\ \/ Failed(calls[k]) /\ Assessed(prev.calls[k])
                 \/ Assessed(calls[k]) /\ Failed(prev.calls[k]) )
            => /\ EntryCount(doc) = N
               /\ EntryCount(prev.doc) = N
               /\ \A j \in (1..N) \ {k} :
                     /\ Caption(doc, j) = Caption(prev.doc, j)
                     /\ Contribution(ledger, j) = Contribution(prev.ledger, j)

\* C4 as stated: an image that met three rate limits in a row has slept exactly
\* twice, 5 then 10, and succeeded.
C4_ThreeRateLimitsThenSuccess ==
    (pc = "append" /\ Len(calls[idx]) >= 3
        /\ AllRateLimited(SubSeq(calls[idx], 1, 3)))
    => (sleeps[idx] = <<5, 10>> /\ success)

\* C4 amended: an image that met two rate limits in a row and then a success
\* has slept exactly twice, 5 then 10, and succeeded on its third attempt, the
\* last one allowed.
C4_TwoRateLimitsThenSuccess ==
    (pc = "append" /\ Len(calls[idx]) = 3
        /\ AllRateLimited(SubSeq(calls[idx], 1, 2))
        /\ Assessed(calls[idx]))
    => (sleeps[idx] = <<5, 10>> /\ success /\ attempt + 1 = 3 /\ retries = 3)

C4_Witness ==
    /\ pc = "append"
    /\ Len(calls[idx]) = 3
    /\ AllRateLimited(SubSeq(calls[idx], 1, 2))
    /\ Assessed(calls[idx])
    /\ Len(sleeps[idx]) = 2

\* C5: a call that fails with anything but a rate limit is the last call of its
\* image, no sleep follows it, and the caption of the image is the fallback
\* that embeds the detail of that failure.
C5_OtherErrorEndsTheImage ==
    \A i \in 1..N : \A p \in 1..Len(calls[i]) :
        calls[i][p].kind = "error" =>
            /\ p = Len(calls[i])
            /\ Len(sleeps[i]) = p - 1
            /\ ~(idx = i /\ pc \in {"call", "sleep"})
            /\ i <= EntryCount(doc) =>
                  Caption(doc, i) = <<ErrorPrefix>> \o calls[i][p].body

C5_Witness ==
    \E i \in 1..EntryCount(doc) :
        /\ i < idx
        /\ Len(calls[i]) = 2
        /\ calls[i][1] = RateLimit
        /\ calls[i][2].kind = "error"
        /\ Exhausted(calls[idx])

\* C6: every image that got its entry was called at least once; no image is
\* called more than 3 times; and every call but the last of an image met a
\* rate limit, so that no call follows a success or another failure.
C6_CallsPerImage ==
    \A i \in 1..N :
        /\ Len(calls[i]) <= 3
        /\ \A p \in 1..(Len(calls[i]) - 1) : calls[i][p] = RateLimit
        /\ (i <= EntryCount(doc) \/ (idx = i /\ pc = "append")) => Len(calls[i]) >= 1
        /\ (idx = i /\ pc = "call") => AllRateLimited(calls[i])

C6_Witness ==
    \E i \in 1..EntryCount(doc) :
        /\ i + 1 <= EntryCount(doc)
        /\ Len(calls[i]) = 3
        /\ Assessed(calls[i])
        /\ Len(calls[i + 1]) = 1

RECURSIVE SumOfSuccessCaptions(_, _)
SumOfSuccessCaptions(d, n) ==
    IF n = 0 THEN 0
    ELSE SumOfSuccessCaptions(d, n - 1)
         + (IF IsFallback(Caption(d, n)) THEN 0
            ELSE estimate_cost(build_prompt, Caption(d, n)))

\* C7: the total returned is the sum of estimate_cost(prompt, caption) over
\* the entries that carry the caption of a successful assessment; an entry
\* with a fallback caption adds 0.
C7_TotalIsSumOverSuccessCaptions ==
    pc = "done" => total_cost = SumOfSuccessCaptions(doc, EntryCount(doc))

\* C8: the running total starts at 0 and no step of a run lowers it; the total
\* after an image is at least the total after the image before.
C8_CostNeverDecreases ==
    /\ total_cost = 0
    /\ [][ /\ total_cost' >= total_cost
           /\ \A i \in 1..Len(ledger') :
                 ledger'[i] >= (IF i = 1 THEN 0 ELSE ledger'[i - 1]) ]_vars

C8_Witness ==
    /\ Len(ledger) = 3
    /\ ledger[1] > 0
    /\ ledger[2] = ledger[1]
    /\ ledger[3] > ledger[2]
    /\ Contribution(ledger, 3) < Contribution(ledger, 1)

\* The entries that precede position p of the document.
EntriesBefore(d, p) == Len(SelectSeq(SubSeq(d, 1, p - 1), LAMBDA e : e.kind = "blank"))

\* C9: a page break stands right after every 2nd entry and nowhere else, so a
\* document of n entries holds floor(n / 2) page breaks and an odd last entry
\* has none after it; images_on_page is 0 or 1 whenever an iteration starts.
C9_PageBreakEverySecondEntry ==
    pc # "raised" =>
        /\ \A p \in 1..Len(doc) :
              IsPageBreak(doc[p]) <=>
                  /\ p > 1
                  /\ doc[p - 1] = Blank
                  /\ EntriesBefore(doc, p) > 0
                  /\ EntriesBefore(doc, p) % 2 = 0
        /\ \A p \in 1..Len(doc) :
              (doc[p] = Blank /\ EntriesBefore(doc, p + 1) % 2 = 0) =>
                  (p < Len(doc) /\ IsPageBreak(doc[p + 1]))
        /\ PageBreaks(doc) = EntryCount(doc) \div 2
        /\ (EntryCount(doc) % 2 = 1) => ~IsPageBreak(doc[Len(doc)])
        /\ pc = "loop" => images_on_page \in {0, 1}
        /\ images_on_page = EntryCount(doc) % 2

C9_Witness ==
    /\ pc = "done"
    /\ EntryCount(doc) = 3
    /\ PageBreaks(doc) = 1
    /\ doc[Len(doc)] = Blank

IsLetter(c) == IsUpper(c) \/ IsLower(c)

\* The periods a text ends with.
RECURSIVE TrailingPeriods(_)
TrailingPeriods(s) ==
    IF s = <<>> \/ s[Len(s)] # "." THEN 0
    ELSE 1 + TrailingPeriods(SubSeq(s, 1, Len(s) - 1))

\* The content the call in hand returned.
Content == Last(calls[idx]).body

\* C10 as stated: the caption made of any response text is not empty, starts
\* with an uppercase letter and ends with exactly one period.
C10_CaptionIsASentence ==
    (pc = "append" /\ success) =>
        /\ comment # <<>>
        /\ IsUpper(comment[1])
        /\ TrailingPeriods(comment) = 1

\* C10 amended: the caption made of any response text is not empty, ends with a
\* period and does not start with a lowercase letter; it starts with an
\* uppercase letter when the stripped text starts with a letter, and ends with
\* exactly one period when the stripped text ends with at most one.
C10_CaptionNormalised ==
    (pc = "append" /\ success) =>
        /\ comment # <<>>
        /\ comment[Len(comment)] = "."
        /\ ~IsLower(comment[1])
        /\ (strip(Content) # <<>> /\ IsLetter(strip(Content)[1])) => IsUpper(comment[1])
        /\ TrailingPeriods(strip(Content)) <= 1 => TrailingPeriods(comment) = 1

C10_Witness ==
    /\ pc = "append"
    /\ success
    /\ Content = <<" ", "a", " ">>
    /\ comment = <<"A", ".">>

\* The call returned content and estimate_cost raised on it.
TokenizerFailed(cs) == cs # <<>> /\ Last(cs).kind = "ok" /\ ~Last(cs).tokenizer

\* C11: generate_report raises only when the document cannot be saved: a run
\* that raised has handled every image and given each its entry.
C11_OnlySavingMakesTheRunRaise ==
    pc = "raised" => (idx = N /\ EntryCount(doc) = N /\ Len(ledger) = N)

\* C12: a run in which estimate_cost failed for want of a tokenizer does not
\* return normally.
C12_TokenizerFailureEndsTheRun ==
    pc = "done" => \A i \in 1..N : ~TokenizerFailed(calls[i])

\* The images that were called and have no entry yet.
InFlight == {i \in 1..N : calls[i] # <<>> /\ i > Len(ledger)}

\* C14: calls go out in list order, one image at a time: while image idx is
\* called or slept for, exactly the images before it have their entry and no
\* later image was called; a step that calls or sleeps for an image does so
\* for image idx before its entry, and an entry is appended for image idx only.
C14_StrictlySequential ==
    /\ [](pc # "raised" =>
            /\ \A j \in 1..N : j > idx => (calls[j] = <<>> /\ sleeps[j] = <<>>)
            /\ pc \in {"call", "sleep", "append"} => Len(ledger) = idx - 1
            /\ pc \in {"loop", "done"} => Len(ledger) = idx
            /\ EntryCount(doc) = Len(ledger)
            /\ Cardinality(InFlight) <= 1)
    /\ [][ /\ \A i \in 1..N :
                (calls'[i] # calls[i] \/ sleeps'[i] # sleeps[i]) =>
                    (i = idx /\ i = idx' /\ Len(ledger) = i - 1 /\ ledger' = ledger)
           /\ ledger' # ledger =>
                (Len(ledger') = idx /\ calls[idx] # <<>> /\ calls' = calls) ]_vars

C14_Witness ==
    /\ pc = "call"
    /\ idx = 3
    /\ Len(calls[3]) = 2
    /\ Len(sleeps[3]) = 2
    /\ Len(sleeps[1]) = 3
    /\ EntryCount(doc) = 2

\* C17: every image starts its retry loop at attempt 0 with a delay of 5,
\* whatever the images before it used up.
C17_RetryStatePerImage ==
    (pc = "call" /\ calls[idx] = <<>>) => (attempt = 0 /\ delay = 5)

C17_Witness ==
    /\ pc = "call"
    /\ idx = 3
    /\ calls[3] = <<>>
    /\ Exhausted(calls[1])
    /\ Len(sleeps[2]) = 1
    /\ delay = 5

RateLimitsIn(cs) == Len(SelectSeq(cs, LAMBDA m : m = RateLimit))

RECURSIVE Pow2(_)
Pow2(n) == IF n = 0 THEN 1 ELSE 2 * Pow2(n - 1)

\* C18: an image has slept once for each of its rate limited attempts, the
\* last allowed attempt included, the j-th time for 5 * 2^(j-1) seconds; an
\* image whose 3 attempts were rate limited has slept 5, 10 and 20 before its
\* fallback caption is written.
C18_OneSleepPerRateLimit ==
    \A i \in 1..N :
        /\ Len(sleeps[i]) = RateLimitsIn(calls[i]) - (IF pc = "sleep" /\ idx = i THEN 1 ELSE 0)
        /\ \A j \in 1..Len(sleeps[i]) : sleeps[i][j] = 5 * Pow2(j - 1)
        /\ (Exhausted(calls[i]) /\ ~(pc = "sleep" /\ idx = i)) => sleeps[i] = <<5, 10, 20>>
        /\ (Exhausted(calls[i]) /\ pc = "sleep" /\ idx = i) => EntryCount(doc) = i - 1

C18_Witness ==
    /\ pc = "append"
    /\ idx = 2
    /\ Exhausted(calls[2])
    /\ sleeps[2] = <<5, 10, 20>>
    /\ EntryCount(doc) = 1

RECURSIVE TotalLen(_, _)
TotalLen(f, n) == IF n = 0 THEN 0 ELSE TotalLen(f, n - 1) + Len(f[n])

\* An image could not be read or embedded: the run raised before its last entry.
FileFailure == pc = "raised" /\ Len(ledger) < N

\* Line 120 was reached: the document was saved or saving it raised.
SaveReached == pc = "done" \/ (pc = "raised" /\ Len(ledger) = N)

\* C19: a run makes at most 3 * N calls and at most 3 * N sleeps, and when it
\* has come to its end it has reached the save step.
C19_EndsAtTheSaveStep ==
    /\ TotalLen(calls, N) <= 3 * N
    /\ TotalLen(sleeps, N) <= 3 * N
    /\ pc \in {"done", "raised"} => SaveReached

\* What holds of every run: the two bounds, and that a run whose image files
\* are all read and embedded reaches the save step.
TerminationWhenFilesAreRead ==
    /\ [](TotalLen(calls, N) <= 3 * N /\ TotalLen(sleeps, N) <= 3 * N)
    /\ ([]~FileFailure => <>SaveReached)

\* ------------------------------------------------------------------- claim C16

SameOutcomes == run = 2 /\ pc = "done" /\ prev.pc = "done" /\ calls = prev.calls

FreshStart ==
    /\ total_cost = 0
    /\ ~comment_bound
    /\ comment = <<>>
    /\ doc = <<>>
    /\ ledger = <<>>
    /\ images_on_page = 0
    /\ \A i \in 1..N : calls[i] = <<>> /\ sleeps[i] = <<>>

\* C16: two runs on one list that receive the same API outcomes produce the
\* same entries, page breaks and total cost; and a later run starts with the
\* total at 0, no caption bound, an empty document, and the retry state of
\* its first image set anew.
C16_NoMemoryBetweenRuns ==
    /\ SameOutcomes =>
          /\ doc = prev.doc
          /\ total_cost = prev.total_cost
          /\ ledger = prev.ledger
    /\ (run = 2 /\ pc = "loop" /\ idx = 0) => FreshStart
    /\ (run = 2 /\ pc = "call" /\ idx = 1 /\ calls[1] = <<>>) =>
          attempt = 0 /\ delay = InitialDelay /\ ~comment_bound /\ total_cost = 0

\* Both runs: the first image runs out of rate limits, the second succeeds.
C16_Witness ==
    /\ SameOutcomes
    /\ N = 2
    /\ Exhausted(calls[1])
    /\ total_cost > 0
    /\ PageBreaks(doc) = 1

\* ------------------------------------------------------------------- claim C13

\* The extension of a name is one of the three, whatever the case of its letters.
HasImageExtension(nm) ==
    LET x == splitext(nm)[2]
    IN  \E e \in AllowedExtensions :
            Len(x) = Len(e) /\ \A i \in 1..Len(e) : lower(x[i]) = lower(e[i])

Accepted == SelectSeq(uploaded, LAMBDA f : HasImageExtension(f.name))

Rejected == SelectSeq(uploaded, LAMBDA f : ~HasImageExtension(f.name))

PathsOf(fs) == [k \in 1..Len(fs) |-> path_of(fs[k].name)]

NamesOf(fs) == [k \in 1..Len(fs) |-> fs[k].name]

IsPicture(el) == el.kind = "picture" /\ el.picture # ""

PicturesOf(d) == LET ps == SelectSeq(d, IsPicture) IN [k \in 1..Len(ps) |-> ps[k].picture]

\* C13: the list built from the uploads, the list handed to generate_report
\* and the pictures of the finished report are the paths of the uploads with
\* one of the three extensions in any case, in upload order; the names
\* reported invalid are those of all the other uploads, in upload order; and
\* every path of the list is a file that was written.
C13_InputFiltering ==
    /\ saved = PathsOf(Accepted)
    /\ invalid = NamesOf(Rejected)
    /\ \A k \in 1..Len(saved) : saved[k] \in DOMAIN temp_images
    /\ pc # "none" => image_paths = PathsOf(Accepted)
    /\ pc = "done" => PicturesOf(doc) = PathsOf(Accepted)

\* The uploads a.jpg, b.txt, c.JPEG and their finished report.
C13_Witness ==
    /\ NamesOf(uploaded) = << <<"a", ".", "j", "p", "g">>, <<"b", ".", "t", "x", "t">>,
                              <<"c", ".", "J", "P", "E", "G">> >>
    /\ invalid = << <<"b", ".", "t", "x", "t">> >>
    /\ image_paths = << "temp_images/a.jpg", "temp_images/c.JPEG" >>
    /\ pc = "done"
    /\ EntryCount(doc) = 2

\* ------------------------------------------------------------------- claim C15

Configured == <<AuthUsername, AuthPassword>>

\* C15: logged_in starts false; it becomes true only in a login attempt whose
\* username and password are both the configured ones; an attempt with
\* anything else leaves it false; and while it is false the image analysis
\* page is not rendered, nothing is uploaded and generate_report is not called.
C15_LoginGate ==
    /\ ~logged_in
    /\ [][(~logged_in /\ logged_in') => attempts' = Append(attempts, Configured)]_vars
    /\ [][(Len(attempts') > Len(attempts) /\ attempts'[Len(attempts')] # Configured)
              => ~logged_in']_vars
    /\ [](~logged_in => page = "login" /\ uploaded = <<>> /\ pc = "none" /\ run = 0)

\* A report finished after a wrong password and then the right one.
C15_Witness ==
    /\ logged_in
    /\ attempts = << <<AuthUsername, "wrong">>, Configured >>
    /\ pc = "done"

=============================================================================
